---- MODULE Spec2Model ----
(***************************************************************************)
(* vnpy_rest.rest_client: RestClient and Request.                          *)
(*                                                                         *)
(* The client owns an unbounded FIFO queue.Queue of Request objects, an    *)
(* active flag and a thread pool.  start() submits RestClient.run to the   *)
(* pool; run() loops while the flag is set, polls the queue with a one     *)
(* second timeout, hands each request to process_request and acknowledges  *)
(* it with task_done.  join() is queue.join().                             *)
(*                                                                         *)
(* Threads interleave between the statements that read or write shared     *)
(* state (the flag, the queue, the pool reference); process_request works  *)
(* on the dequeued request alone and is one step.                          *)
(***************************************************************************)
EXTENDS Integers, Sequences, FiniteSets, TLC

\* Number of add_request calls explored.
MaxReq == 2
\* Number of run() tasks explored (one per start() that passes the flag check).
MaxRuns == 2

ReqIds == 1..MaxReq
Workers == 1..MaxRuns

\* Status codes an exchange may return: both sides of 200 and of 299, and 204.
StatusCodes == {199, 200, 204, 299, 300}
\* Thread counts passed to start(n): the default of line 115.  The count only
\* sizes the pool; run is submitted once whatever it is.
PoolSizes == {5}

VARIABLES
    active,     \* RestClient.active
    pool,       \* RestClient.pool: [id, n] of the latest Pool(n), NoPool before
    starting,   \* threads inside start(), past the flag check, before line 123
    queue,      \* RestClient.queue: the queued Request objects, head first
    unfinished, \* queue.unfinished_tasks
    nreq,       \* Request objects created by add_request so far
    reqs,       \* by request identity: the response field and what became of it
    wpc,        \* position of each run() task
    wreq,       \* the Request a run() task holds (NoRequest: none)
    wres,       \* what process_request did for the request the task holds
    wexc,       \* the exception that took a run() task to its outer handler
    joinPc,     \* position of the thread calling join()
    joinSnap,   \* requests that had been enqueued when join() was called
    lastStart   \* what the latest start() call found at its flag check

vars == <<active, pool, starting, queue, unfinished, nreq, reqs,
          wpc, wreq, wres, wexc, joinPc, joinSnap, lastStart>>

\* self.pool: id counts the Pool objects made so far, n is the thread count
\* the latest was made with, runs the apply_async(self.run) calls made on it.
NoPool == [id |-> 0, n |-> 0, runs |-> 0]

\* Request.__init__, as the object travels through the queue to the task
\* that dequeues it: its identity and whether it carries each hook.
Request(id, cb, of, oe) ==
    [id |-> id, callback |-> cb, on_failed |-> of, on_error |-> oe]

NoRequest == [id |-> 0, callback |-> FALSE, on_failed |-> FALSE, on_error |-> FALSE]

\* What is known of each Request object by identity: response is its response
\* field (None from line 61 on); the rest observes its life: st its place
\* (new: not created, queued, inflight, acked), outcome the branch in which
\* process_request ended, dispatches how often process_request ran on it,
\* late whether it was enqueued on a client that stop() had left inactive
\* and on which start() has not been called since.
Ledger(isLate) ==
    [st |-> "queued", response |-> "None", outcome |-> "ready",
     dispatches |-> 0, late |-> isLate]

NoLedger ==
    [st |-> "new", response |-> "None", outcome |-> "ready",
     dispatches |-> 0, late |-> FALSE]

\* What the collaborators of one dispatch do: whether sign raises, whether
\* session.request raises and the status it returns otherwise, whether
\* response.json raises, whether the invoked callback or on_failed hook raises, whether the
\* invoked on_error hook raises.
Envs ==
    [sign : {"ok", "raise"}, send : {"ok", "raise"}, status : StatusCodes,
     json : {"ok", "raise"}, hook : {"ok", "raise"}, on_error : {"ok", "raise"}]

\* The record of one dispatch before anything happened: whether the exchange
\* was attempted, the status code of the response bound to the request (0:
\* none), whether response.json() was called, the local json_body, how often
\* each hook was invoked and with which argument, the statement of the try
\* block that raised, whether an exception left process_request.
NoRes ==
    [sent |-> FALSE, code |-> 0, decoded |-> FALSE, json_body |-> "None",
     callback |-> 0, cb_body |-> "unset",
     req_failed |-> 0, cli_failed |-> 0, failed_code |-> 0,
     req_error |-> 0, cli_error |-> 0,
     raised |-> "none", escaped |-> FALSE, outcome |-> "ready"]

(***************************************************************************)
(* process_request, lines 256-305.                                         *)
(***************************************************************************)

\* Line 283 comparing the status with 200 instead of its hundreds.
IsSuccess_Only200(status_code) == status_code = 200

\* Line 283: status_code // 100 == 2.
IsSuccess(status_code) == status_code \div 100 = 2

\* Line 286 without the exception for 204.
NeedsDecode_Always(status_code) == TRUE

\* Line 286: status_code != 204.
NeedsDecode(status_code) == status_code # 204

\* Lines 289-290 without the test of line 289: calling None raises.
InvokeCallback_Unchecked(req, env, res) ==
    IF req.callback
    THEN [res EXCEPT !.callback = @ + 1, !.cb_body = res.json_body,
                     !.raised = IF env.hook = "raise" THEN "callback" ELSE "none"]
    ELSE [res EXCEPT !.raised = "callback"]

\* Lines 289-290: request.callback(json_body, request) when there is one.
InvokeCallback(req, env, res) ==
    IF req.callback
    THEN [res EXCEPT !.callback = @ + 1, !.cb_body = res.json_body,
                     !.raised = IF env.hook = "raise" THEN "callback" ELSE "none"]
    ELSE res

\* Lines 284-290: the 2xx branch.
SuccessPath(req, env, res) ==
    IF NeedsDecode(res.code)
    THEN IF env.json = "raise"
         THEN [res EXCEPT !.decoded = TRUE, !.raised = "json"]
         ELSE InvokeCallback(req, env,
                  [res EXCEPT !.decoded = TRUE, !.json_body = "json"])
    ELSE InvokeCallback(req, env, res)

\* Lines 291-295 without the else of line 294: the client's on_failed runs
\* after the request's own.
FailurePath_NoElse(req, env, res) ==
    LET threw == IF env.hook = "raise" THEN "on_failed" ELSE "none"
    IN IF req.on_failed
       THEN [res EXCEPT !.req_failed = @ + 1, !.cli_failed = @ + 1,
                        !.failed_code = res.code, !.raised = threw]
       ELSE [res EXCEPT !.cli_failed = @ + 1, !.failed_code = res.code,
                        !.raised = threw]

\* Lines 291-295: the other branch, the request's on_failed or the client's.
FailurePath(req, env, res) ==
    LET threw == IF env.hook = "raise" THEN "on_failed" ELSE "none"
    IN IF req.on_failed
       THEN [res EXCEPT !.req_failed = @ + 1, !.failed_code = res.code,
                        !.raised = threw]
       ELSE [res EXCEPT !.cli_failed = @ + 1, !.failed_code = res.code,
                        !.raised = threw]

\* Lines 263-295: the try block up to the statement that raises, if one does.
\* sign (lines 194-201) hands back the request it was given, or an override
\* raises; what is raised is an Exception, which line 296 catches.
TryBlock(req, env) ==
    IF env.sign = "raise"
    THEN [NoRes EXCEPT !.raised = "sign"]
    ELSE IF env.send = "raise"
         THEN [NoRes EXCEPT !.sent = TRUE, !.raised = "send"]
         ELSE LET res == [NoRes EXCEPT !.sent = TRUE, !.code = env.status]
              IN IF IsSuccess(res.code)
                 THEN SuccessPath(req, env, res)
                 ELSE FailurePath(req, env, res)

\* Lines 296-305 without the else of line 304: the client's on_error runs
\* after the request's own.
ExceptBlock_BothHandlers(req, env, res) ==
    LET out == [res EXCEPT !.outcome = "error",
                           !.escaped = (env.on_error = "raise")]
    IN IF req.on_error
       THEN [out EXCEPT !.req_error = @ + 1, !.cli_error = @ + 1]
       ELSE [out EXCEPT !.cli_error = @ + 1]

\* Lines 296-305: the handler, the request's on_error or the client's; an
\* exception of the hook leaves process_request.  The test of line 301 holds
\* in a handler: sys.exc_info() gives a class, an instance and a traceback.
ExceptBlock(req, env, res) ==
    LET out == [res EXCEPT !.outcome = "error",
                           !.escaped = (env.on_error = "raise")]
    IN IF req.on_error
       THEN [out EXCEPT !.req_error = @ + 1]
       ELSE [out EXCEPT !.cli_error = @ + 1]

\* Lines 256-305.
process_request(req, env) ==
    LET res == TryBlock(req, env)
    IN IF res.raised # "none"
       THEN ExceptBlock(req, env, res)
       ELSE [res EXCEPT !.outcome = IF IsSuccess(res.code) THEN "success"
                                                          ELSE "failed"]

(***************************************************************************)
(* The client's calls.                                                     *)
(***************************************************************************)

Init ==
    /\ active = FALSE
    /\ pool = NoPool
    /\ starting = 0
    /\ queue = <<>>
    /\ unfinished = 0
    /\ nreq = 0
    /\ reqs = [r \in ReqIds |-> NoLedger]
    /\ wpc = [w \in Workers |-> "unborn"]
    /\ wreq = [w \in Workers |-> NoRequest]
    /\ wres = [w \in Workers |-> NoRes]
    /\ wexc = [w \in Workers |-> "none"]
    /\ joinPc = "idle"
    /\ joinSnap = 0
    /\ lastStart = "none"

\* Lines 121-122 without the test: every call goes on to line 123.
StartCheck_NoFlagCheck ==
    /\ pool.id + starting < MaxRuns
    /\ lastStart' = "pass"
    /\ starting' = starting + 1
    /\ reqs' = [r \in ReqIds |-> [reqs[r] EXCEPT !.late = FALSE]]
    /\ UNCHANGED <<active, pool, queue, unfinished, nreq, wpc, wreq, wres, wexc,
                   joinPc, joinSnap>>

\* Lines 121-122: the flag check of start(); a call that finds the flag set
\* returns.  A call that passes may be overtaken before line 123.
StartCheck ==
    /\ IF active
       THEN /\ lastStart' = "noop"
            /\ UNCHANGED <<starting, reqs>>
       ELSE /\ pool.id + starting < MaxRuns
            /\ lastStart' = "pass"
            /\ starting' = starting + 1
            /\ reqs' = [r \in ReqIds |-> [reqs[r] EXCEPT !.late = FALSE]]
    /\ UNCHANGED <<active, pool, queue, unfinished, nreq, wpc, wreq, wres, wexc,
                   joinPc, joinSnap>>

\* Lines 123-126: set the flag, make Pool(n), submit run once.
StartBody(n) ==
    /\ starting > 0
    /\ starting' = starting - 1
    /\ active' = TRUE
    /\ pool' = [id |-> pool.id + 1, n |-> n, runs |-> 1]
    /\ wpc' = [wpc EXCEPT ![pool.id + 1] = "session"]
    /\ UNCHANGED <<queue, unfinished, nreq, reqs, wreq, wres, wexc,
                   joinPc, joinSnap, lastStart>>

\* Lines 128-130.
Stop ==
    /\ active' = FALSE
    /\ UNCHANGED <<pool, starting, queue, unfinished, nreq, reqs,
                   wpc, wreq, wres, wexc, joinPc, joinSnap, lastStart>>

\* Lines 136-174: make the Request and put it on the queue.
AddRequest(cb, of, oe) ==
    /\ nreq < MaxReq
    /\ nreq' = nreq + 1
    /\ reqs' = [reqs EXCEPT ![nreq + 1] =
                    Ledger(pool.id > 0 /\ ~active /\ starting = 0)]
    /\ queue' = Append(queue, Request(nreq + 1, cb, of, oe))
    /\ unfinished' = unfinished + 1
    /\ UNCHANGED <<active, pool, starting, wpc, wreq, wres, wexc,
                   joinPc, joinSnap, lastStart>>

\* Lines 132-134: join() enters queue.join().
JoinCall ==
    /\ joinPc \in {"idle", "returned"}
    /\ joinPc' = "waiting"
    /\ joinSnap' = nreq
    /\ UNCHANGED <<active, pool, starting, queue, unfinished, nreq, reqs,
                   wpc, wreq, wres, wexc, lastStart>>

\* Line 134 waiting for the queue to be empty instead of acknowledged.
JoinReturn_WhenQueueEmpty ==
    /\ joinPc = "waiting"
    /\ queue = <<>>
    /\ joinPc' = "returned"
    /\ UNCHANGED <<active, pool, starting, queue, unfinished, nreq, reqs,
                   wpc, wreq, wres, wexc, joinSnap, lastStart>>

\* Line 134: queue.join() returns once unfinished_tasks is zero.
JoinReturn ==
    /\ joinPc = "waiting"
    /\ unfinished = 0
    /\ joinPc' = "returned"
    /\ UNCHANGED <<active, pool, starting, queue, unfinished, nreq, reqs,
                   wpc, wreq, wres, wexc, joinSnap, lastStart>>

(***************************************************************************)
(* run, lines 176-192.                                                     *)
(***************************************************************************)

\* Line 179: requests.session(); an exception goes to the handler of line 189.
RunSession(w) ==
    /\ wpc[w] = "session"
    /\ \/ /\ wpc' = [wpc EXCEPT ![w] = "loop"]
          /\ UNCHANGED wexc
       \/ /\ wpc' = [wpc EXCEPT ![w] = "fatal"]
          /\ wexc' = [wexc EXCEPT ![w] = "session"]
    /\ UNCHANGED <<active, pool, starting, queue, unfinished, nreq, reqs,
                   wreq, wres, joinPc, joinSnap, lastStart>>

\* Line 180 as a loop that also ends when it finds the queue empty.
RunLoop_UntilEmpty(w) ==
    /\ wpc[w] = "loop"
    /\ wpc' = [wpc EXCEPT ![w] = IF active /\ queue # <<>> THEN "get"
                                                           ELSE "exited"]
    /\ UNCHANGED <<active, pool, starting, queue, unfinished, nreq, reqs,
                   wreq, wres, wexc, joinPc, joinSnap, lastStart>>

\* Line 180: while self.active.
RunLoop(w) ==
    /\ wpc[w] = "loop"
    /\ wpc' = [wpc EXCEPT ![w] = IF active THEN "get" ELSE "exited"]
    /\ UNCHANGED <<active, pool, starting, queue, unfinished, nreq, reqs,
                   wreq, wres, wexc, joinPc, joinSnap, lastStart>>

\* Line 182 reading the head of the queue without taking it off.
RunGet_Peek(w) ==
    /\ wpc[w] = "get"
    /\ IF queue # <<>>
       THEN /\ wreq' = [wreq EXCEPT ![w] = Head(queue)]
            /\ reqs' = [reqs EXCEPT ![Head(queue).id].st = "inflight"]
            /\ wpc' = [wpc EXCEPT ![w] = "process"]
       ELSE /\ wpc' = [wpc EXCEPT ![w] = "loop"]
            /\ UNCHANGED <<wreq, reqs>>
    /\ UNCHANGED <<active, pool, starting, queue, unfinished, nreq,
                   wres, wexc, joinPc, joinSnap, lastStart>>

\* Lines 182-184 with the flag tested again after the get: a task that finds
\* it cleared leaves with the request it took.
RunGet_RecheckFlag(w) ==
    /\ wpc[w] = "get"
    /\ IF queue # <<>>
       THEN /\ wreq' = [wreq EXCEPT ![w] = IF active THEN Head(queue)
                                                     ELSE NoRequest]
            /\ queue' = Tail(queue)
            /\ reqs' = [reqs EXCEPT ![Head(queue).id].st = "inflight"]
            /\ wpc' = [wpc EXCEPT ![w] = IF active THEN "process" ELSE "exited"]
       ELSE /\ wpc' = [wpc EXCEPT ![w] = "loop"]
            /\ UNCHANGED <<wreq, queue, reqs>>
    /\ UNCHANGED <<active, pool, starting, unfinished, nreq,
                   wres, wexc, joinPc, joinSnap, lastStart>>

\* Lines 182, 187-188: queue.get(timeout=1) hands over the head of the queue
\* as soon as there is one, and raises Empty when the second passes without.
RunGet(w) ==
    /\ wpc[w] = "get"
    /\ IF queue # <<>>
       THEN /\ wreq' = [wreq EXCEPT ![w] = Head(queue)]
            /\ queue' = Tail(queue)
            /\ reqs' = [reqs EXCEPT ![Head(queue).id].st = "inflight"]
            /\ wpc' = [wpc EXCEPT ![w] = "process"]
       ELSE /\ wpc' = [wpc EXCEPT ![w] = "loop"]
            /\ UNCHANGED <<wreq, queue, reqs>>
    /\ UNCHANGED <<active, pool, starting, unfinished, nreq,
                   wres, wexc, joinPc, joinSnap, lastStart>>

\* Line 184 with the binding of line 278 moved behind the hooks: a dispatch
\* that ends in the handler leaves the response field as it was.
RunProcess_BindLast(w, env) ==
    /\ wpc[w] = "process"
    /\ LET res == process_request(wreq[w], env)
       IN /\ wres' = [wres EXCEPT ![w] = res]
          /\ reqs' = [reqs EXCEPT
                         ![wreq[w].id].response =
                             IF res.outcome # "error" THEN "Response" ELSE @,
                         ![wreq[w].id].outcome = res.outcome,
                         ![wreq[w].id].dispatches = @ + 1]
    /\ wpc' = [wpc EXCEPT ![w] = "ack"]
    /\ UNCHANGED <<active, pool, starting, queue, unfinished, nreq,
                   wreq, wexc, joinPc, joinSnap, lastStart>>

\* Line 184: process_request on the request held; line 278 binds the response.
RunProcess(w, env) ==
    /\ wpc[w] = "process"
    /\ LET res == process_request(wreq[w], env)
       IN /\ wres' = [wres EXCEPT ![w] = res]
          /\ reqs' = [reqs EXCEPT
                         ![wreq[w].id].response =
                             IF res.code # 0 THEN "Response" ELSE @,
                         ![wreq[w].id].outcome = res.outcome,
                         ![wreq[w].id].dispatches = @ + 1]
    /\ wpc' = [wpc EXCEPT ![w] = "ack"]
    /\ UNCHANGED <<active, pool, starting, queue, unfinished, nreq,
                   wreq, wexc, joinPc, joinSnap, lastStart>>

\* Lines 185-186 without the finally clause: task_done() after a
\* process_request that returned, none after one that raised.
RunTaskDone_NoFinally(w) ==
    /\ wpc[w] = "ack"
    /\ unfinished' = IF wres[w].escaped THEN unfinished ELSE unfinished - 1
    /\ reqs' = [reqs EXCEPT ![wreq[w].id].st = "acked"]
    /\ wreq' = [wreq EXCEPT ![w] = NoRequest]
    /\ wres' = [wres EXCEPT ![w] = NoRes]
    /\ IF wres[w].escaped
       THEN /\ wpc' = [wpc EXCEPT ![w] = "fatal"]
            /\ wexc' = [wexc EXCEPT ![w] = "dispatch"]
       ELSE /\ wpc' = [wpc EXCEPT ![w] = "loop"]
            /\ UNCHANGED wexc
    /\ UNCHANGED <<active, pool, starting, queue, nreq,
                   joinPc, joinSnap, lastStart>>

\* Lines 185-186: task_done() in the finally clause; an exception that left
\* process_request carries on to the handler of line 189.
RunTaskDone(w) ==
    /\ wpc[w] = "ack"
    /\ unfinished' = unfinished - 1
    /\ reqs' = [reqs EXCEPT ![wreq[w].id].st = "acked"]
    /\ wreq' = [wreq EXCEPT ![w] = NoRequest]
    /\ wres' = [wres EXCEPT ![w] = NoRes]
    /\ IF wres[w].escaped
       THEN /\ wpc' = [wpc EXCEPT ![w] = "fatal"]
            /\ wexc' = [wexc EXCEPT ![w] = "dispatch"]
       ELSE /\ wpc' = [wpc EXCEPT ![w] = "loop"]
            /\ UNCHANGED wexc
    /\ UNCHANGED <<active, pool, starting, queue, nreq,
                   joinPc, joinSnap, lastStart>>

\* Lines 189-192: self.on_error(exc, value, tb, None), and run() is over.
RunFatal(w) ==
    /\ wpc[w] = "fatal"
    /\ wpc' = [wpc EXCEPT ![w] = "dead"]
    /\ UNCHANGED <<active, pool, starting, queue, unfinished, nreq, reqs,
                   wreq, wres, wexc, joinPc, joinSnap, lastStart>>

\* The requests add_request can build: every choice of the three hooks.
Hooks == [callback : BOOLEAN, on_failed : BOOLEAN, on_error : BOOLEAN]

\* run() and the queue see of a dispatch only the branch it ended in and
\* whether an exception left process_request.  LifeHooks and LifeEnvs hold one
\* request and one behaviour of the collaborators for each such result:
\* success, failed, an error whose on_error hook returns and one whose hook
\* raises.  DispatchSpec below takes every request and every behaviour through
\* process_request.
LifeHooks == {h \in Hooks : h.callback /\ h.on_failed /\ h.on_error}

LifeEnvs ==
    {e \in Envs :
        /\ e.sign = "ok" /\ e.json = "ok" /\ e.hook = "ok"
        /\ e.status \in {200, 300}
        /\ (e.send = "raise" => e.status = 200)
        /\ (e.send = "ok" => e.on_error = "ok")}

\* The client under every interleaving of start, stop, add_request and the
\* run() tasks.
Next ==
    \/ StartCheck
    \/ \E n \in PoolSizes : StartBody(n)
    \/ Stop
    \/ \E h \in LifeHooks : AddRequest(h.callback, h.on_failed, h.on_error)
    \/ \E w \in Workers : RunSession(w)
    \/ \E w \in Workers : RunLoop(w)
    \/ \E w \in Workers : RunGet(w)
    \/ \E w \in Workers, env \in LifeEnvs : RunProcess(w, env)
    \/ \E w \in Workers : RunTaskDone(w)
    \/ \E w \in Workers : RunFatal(w)

Spec == Init /\ [][Next]_vars

\* The same with a thread that calls join(): queue.join() reads
\* unfinished_tasks and writes nothing the other threads read.
JoinNext ==
    \/ Next
    \/ JoinCall
    \/ JoinReturn

JoinSpec == Init /\ [][JoinNext]_vars

\* The run() tasks are pool threads the scheduler keeps running, and a thread
\* inside start() goes on to line 126; the calls of the client's user are not
\* forced.
RunNext ==
    \E w \in Workers :
        \/ RunSession(w)
        \/ RunLoop(w)
        \/ RunGet(w)
        \/ \E env \in LifeEnvs : RunProcess(w, env)
        \/ RunTaskDone(w)
        \/ RunFatal(w)

FairSpec ==
    /\ Spec
    /\ WF_vars(RunNext)
    /\ WF_vars(\E n \in PoolSizes : StartBody(n))

\* Lines 115-126 for a client whose user calls start() from one thread: a
\* call begins when the one before has returned.
SeqStartCheck ==
    /\ starting = 0
    /\ StartCheck

\* The client with start() called from one thread; stop, add_request and the
\* run() tasks interleave as before.
SeqNext ==
    \/ SeqStartCheck
    \/ \E n \in PoolSizes : StartBody(n)
    \/ Stop
    \/ \E h \in LifeHooks : AddRequest(h.callback, h.on_failed, h.on_error)
    \/ \E w \in Workers : RunSession(w)
    \/ \E w \in Workers : RunLoop(w)
    \/ \E w \in Workers : RunGet(w)
    \/ \E w \in Workers, env \in LifeEnvs : RunProcess(w, env)
    \/ \E w \in Workers : RunTaskDone(w)
    \/ \E w \in Workers : RunFatal(w)

SeqSpec == Init /\ [][SeqNext]_vars

\* The behaviours of LifeEnvs in which no on_error hook raises.
QuietEnvs == {e \in LifeEnvs : e.on_error = "ok"}

\* The steps of one run() task when no on_error hook raises.
RunStep(w) ==
    \/ RunSession(w)
    \/ RunLoop(w)
    \/ RunGet(w)
    \/ \E env \in QuietEnvs : RunProcess(w, env)
    \/ RunTaskDone(w)
    \/ RunFatal(w)

\* A client that is started from one thread, is never stopped and whose
\* on_error hooks return, with a thread that calls join().
SteadyNext ==
    \/ SeqStartCheck
    \/ \E n \in PoolSizes : StartBody(n)
    \/ \E h \in LifeHooks : AddRequest(h.callback, h.on_failed, h.on_error)
    \/ JoinCall
    \/ JoinReturn
    \/ \E w \in Workers : RunSession(w)
    \/ \E w \in Workers : RunLoop(w)
    \/ \E w \in Workers : RunGet(w)
    \/ \E w \in Workers, env \in QuietEnvs : RunProcess(w, env)
    \/ \E w \in Workers : RunTaskDone(w)
    \/ \E w \in Workers : RunFatal(w)

\* Every run() task is a thread of its own that the scheduler keeps running,
\* a thread inside start() goes on to line 126, and a thread inside
\* queue.join() is woken when the count is zero; the calls of the client's
\* user are not forced.
SteadySpec ==
    /\ Init /\ [][SteadyNext]_vars
    /\ \A w \in Workers : WF_vars(RunStep(w))
    /\ WF_vars(\E n \in PoolSizes : StartBody(n))
    /\ WF_vars(JoinReturn)

\* One dispatch, for every request add_request can build and every behaviour
\* of the collaborators: the first run() task of a started client holds the
\* request it has just dequeued.
DispatchInit ==
    /\ active = TRUE
    /\ pool \in {[id |-> 1, n |-> n, runs |-> 1] : n \in PoolSizes}
    /\ starting = 0
    /\ queue = <<>>
    /\ unfinished = 1
    /\ nreq = 1
    /\ reqs = [r \in ReqIds |->
                 IF r = 1 THEN [Ledger(FALSE) EXCEPT !.st = "inflight"]
                          ELSE NoLedger]
    /\ wpc = [w \in Workers |-> IF w = 1 THEN "process" ELSE "unborn"]
    /\ \E h \in Hooks :
          wreq = [w \in Workers |->
                    IF w = 1
                    THEN Request(1, h.callback, h.on_failed, h.on_error)
                    ELSE NoRequest]
    /\ wres = [w \in Workers |-> NoRes]
    /\ wexc = [w \in Workers |-> "none"]
    /\ joinPc = "idle"
    /\ joinSnap = 0
    /\ lastStart = "pass"

DispatchNext ==
    \/ \E w \in Workers, env \in Envs : RunProcess(w, env)
    \/ \E w \in Workers : RunTaskDone(w)
    \/ \E w \in Workers : RunLoop(w)
    \/ \E w \in Workers : RunGet(w)
    \/ \E w \in Workers : RunFatal(w)
    \/ Stop

DispatchSpec == DispatchInit /\ [][DispatchNext]_vars

(***************************************************************************)
(* One dispatch: what process_request has done for the request a run()     *)
(* task holds, once it is over and before task_done.                       *)
(***************************************************************************)

Dispatched(w) == wpc[w] = "ack"

Failed(res) == res.req_failed + res.cli_failed
Errored(res) == res.req_error + res.cli_error

\* How many of the three channels were invoked.
Channels(res) ==
    (IF res.callback > 0 THEN 1 ELSE 0) + (IF Failed(res) > 0 THEN 1 ELSE 0)
        + (IF Errored(res) > 0 THEN 1 ELSE 0)

Is2xx(code) == 200 <= code /\ code <= 299

\* C1 as stated: every dispatch invokes exactly one of the three channels,
\* once, also when the success callback or the on_failed hook raises.
C1_ExactlyOneChannel ==
    \A w \in Workers :
        Dispatched(w) =>
            /\ Channels(wres[w]) = 1
            /\ wres[w].callback + Failed(wres[w]) + Errored(wres[w]) = 1

\* C1, amended: every dispatch ends in exactly one outcome; the success
\* callback and on_failed are never both invoked and neither twice; on_error
\* is invoked once when a statement of the try block raised and not otherwise;
\* two channels are invoked exactly when it is the invoked callback or
\* on_failed hook that raised, and none exactly when a 2xx response came back
\* without error for a request that has no callback.
C1_OutcomeAndChannels ==
    \A w \in Workers :
        Dispatched(w) =>
            LET res == wres[w]
            IN /\ res.outcome \in {"success", "failed", "error"}
               /\ reqs[wreq[w].id].outcome = res.outcome
               /\ res.callback + Failed(res) <= 1
               /\ Errored(res) = (IF res.raised # "none" THEN 1 ELSE 0)
               /\ (res.outcome = "error") = (Errored(res) = 1)
               /\ (Channels(res) = 2) = (res.raised \in {"callback", "on_failed"})
               /\ (Channels(res) = 0) =
                      (res.raised = "none" /\ Is2xx(res.code) /\ ~wreq[w].callback)

\* A success callback was invoked, raised, and on_error was invoked as well.
C1_Witness ==
    \E w \in Workers :
        /\ Dispatched(w)
        /\ wres[w].callback = 1
        /\ wres[w].raised = "callback"
        /\ Errored(wres[w]) = 1

\* C4: when signing, sending, decoding, the invoked callback or the invoked
\* on_failed hook raises, on_error is invoked exactly once, the request's own
\* if it has one and the client's otherwise, and the request has its outcome.
C4_ErrorOnce ==
    \A w \in Workers :
        (Dispatched(w) /\ wres[w].raised # "none") =>
            /\ Errored(wres[w]) = 1
            /\ wres[w].req_error = (IF wreq[w].on_error THEN 1 ELSE 0)
            /\ wres[w].cli_error = (IF wreq[w].on_error THEN 0 ELSE 1)
            /\ reqs[wreq[w].id].outcome = "error"

\* Decoding raised for a request with its own on_error, which was invoked.
C4_Witness ==
    \E w \in Workers :
        /\ Dispatched(w)
        /\ wres[w].raised = "json"
        /\ wreq[w].on_error
        /\ wres[w].req_error = 1
        /\ wres[w].cli_error = 0

\* C5: a status outside 200..299 invokes on_failed exactly once with that
\* status, the request's own if it has one and the client's otherwise, never
\* both, and never the success callback.
C5_FailedOnce ==
    \A w \in Workers :
        (Dispatched(w) /\ wres[w].code # 0 /\ ~Is2xx(wres[w].code)) =>
            /\ Failed(wres[w]) = 1
            /\ wres[w].req_failed = (IF wreq[w].on_failed THEN 1 ELSE 0)
            /\ wres[w].cli_failed = (IF wreq[w].on_failed THEN 0 ELSE 1)
            /\ wres[w].failed_code = wres[w].code
            /\ wres[w].callback = 0

\* Status 300 went to the on_failed hook of a request that has a callback.
C5_Witness ==
    \E w \in Workers :
        /\ Dispatched(w)
        /\ wres[w].code = 300
        /\ wreq[w].on_failed /\ wreq[w].callback
        /\ wres[w].req_failed = 1
        /\ wres[w].failed_code = 300

\* C6 as stated: a status in 200..299 other than 204 invokes the success
\* callback exactly once with the decoded body, and never on_failed.
C6_CallbackAlways ==
    \A w \in Workers :
        (Dispatched(w) /\ Is2xx(wres[w].code) /\ wres[w].code # 204) =>
            /\ wres[w].callback = 1
            /\ wres[w].cb_body = "json"
            /\ Failed(wres[w]) = 0

\* C6, amended: for a status in 200..299 other than 204 the body is decoded
\* and on_failed is never invoked; the success callback is invoked exactly
\* once, with the decoded body, when decoding did not raise and the request
\* has a callback, and not at all otherwise.
C6_CallbackIfDecoded ==
    \A w \in Workers :
        (Dispatched(w) /\ Is2xx(wres[w].code) /\ wres[w].code # 204) =>
            /\ wres[w].decoded
            /\ Failed(wres[w]) = 0
            /\ wres[w].callback =
                   (IF wres[w].raised # "json" /\ wreq[w].callback THEN 1 ELSE 0)
            /\ wres[w].cb_body =
                   (IF wres[w].callback = 1 THEN "json" ELSE "unset")

\* Status 299 reached the success callback with the decoded body.
C6_Witness ==
    \E w \in Workers :
        /\ Dispatched(w)
        /\ wres[w].code = 299
        /\ wres[w].callback = 1
        /\ wres[w].cb_body = "json"
        /\ wres[w].outcome = "success"

\* C7: for status 204 response.json() is not called, so decoding cannot be
\* what raised, and a request that has a callback gets it invoked once with
\* None as the body.
C7_NoDecode204 ==
    \A w \in Workers :
        (Dispatched(w) /\ wres[w].code = 204) =>
            /\ ~wres[w].decoded
            /\ wres[w].raised # "json"
            /\ wreq[w].callback =>
                   (wres[w].callback = 1 /\ wres[w].cb_body = "None")

\* Status 204 reached the success callback with None.
C7_Witness ==
    \E w \in Workers :
        /\ Dispatched(w)
        /\ wres[w].code = 204
        /\ wres[w].callback = 1
        /\ wres[w].cb_body = "None"
        /\ wres[w].outcome = "success"

(***************************************************************************)
(* The life of the requests and of the client.                             *)
(***************************************************************************)

Terminal(r) == reqs[r].outcome \in {"success", "failed", "error"}

Held(r) == \E w \in Workers : wreq[w].id = r /\ wpc[w] \in {"process", "ack"}

InQueue(r) == \E i \in 1..Len(queue) : queue[i].id = r

RunDied == \E w \in Workers : wpc[w] \in {"fatal", "dead"}

\* C2 as stated, for a client that has been started and none of whose run()
\* tasks ends in its outer handler: every enqueued request eventually reaches
\* an outcome, whatever start, stop and add_request do.
C2_AllEnqueuedFinish ==
    \A r \in ReqIds :
        (reqs[r].st = "queued" /\ pool.id > 0) ~> (Terminal(r) \/ RunDied)

\* C2, amended: process_request runs at most once on a request, so a request
\* reaches at most one outcome and never a second; there are never more
\* outcomes than requests enqueued; a request has its outcome when it is
\* acknowledged and none while it is queued.
C2_AtMostOneOutcome ==
    /\ \A r \in ReqIds :
          /\ reqs[r].dispatches <= 1
          /\ Terminal(r) = (reqs[r].dispatches = 1)
          /\ reqs[r].st \in {"new", "queued"} => ~Terminal(r)
          /\ reqs[r].st = "acked" => Terminal(r)
    /\ Cardinality({r \in ReqIds : Terminal(r)}) <= nreq

\* Two requests were enqueued and both reached an outcome, not the same one.
C2_Witness ==
    /\ nreq >= 2
    /\ reqs[1].st = "acked" /\ reqs[1].outcome = "error"
    /\ reqs[2].st = "acked" /\ reqs[2].outcome = "success"

\* C3: once join() has returned, every request that had been enqueued when
\* it was called has its outcome and has been acknowledged.
C3_JoinAfterAck ==
    joinPc = "returned" =>
        \A r \in ReqIds :
            r <= joinSnap => (reqs[r].st = "acked" /\ Terminal(r))

\* join() was called after two requests and has returned; the client has been
\* stopped.
C3_Witness ==
    /\ joinPc = "returned"
    /\ joinSnap >= 2
    /\ ~active

\* C8: a request taken off the queue is held by a run() task that is inside
\* the dispatch until it is acknowledged, whatever stop() does meanwhile: a
\* task that has left its loop holds none, and an acknowledged request has
\* its outcome.
C8_NoDrop ==
    /\ \A r \in ReqIds :
          /\ reqs[r].st = "queued" => InQueue(r)
          /\ reqs[r].st = "inflight" => Held(r)
          /\ reqs[r].st = "acked" => Terminal(r)
    /\ \A w \in Workers :
          wpc[w] \notin {"process", "ack"} => wreq[w] = NoRequest

\* A task has finished the dispatch of a request, enqueued while the client
\* was active, on a client that stop() has cleared the flag of.
C8_Witness ==
    \E w \in Workers :
        /\ wpc[w] = "ack"
        /\ ~active /\ starting = 0
        /\ ~reqs[wreq[w].id].late
        /\ Terminal(wreq[w].id)

\* C9: a request enqueued after stop() has returned, with no start() since,
\* stays in the queue.
C9_LateStaysQueued ==
    \A r \in ReqIds : reqs[r].late => reqs[r].st = "queued"

\* C10: a start() call that makes its flag check while the flag is set
\* returns at once: it lets no thread past the check and leaves the flag, the
\* pool, the run() tasks and the queue as they are.
C10_StartNoop ==
    [][(active /\ (starting' > starting \/ lastStart' # lastStart))
          => /\ lastStart' = "noop"
             /\ UNCHANGED <<active, pool, starting, queue, unfinished,
                            wpc, wreq>>]_vars

\* start() was called on an active client whose first run() task is polling.
C10_Witness ==
    /\ lastStart = "noop"
    /\ active
    /\ pool.id = 1
    /\ wpc[1] = "get"
    /\ wpc[2] = "unborn"

\* C11: task_done() is called once for each request taken off the queue, also
\* when process_request raised, and never after a poll that timed out: the
\* queue's count of unfinished tasks is the number of requests queued plus
\* the number held by a run() task, it is never negative, and it is zero
\* exactly when every request enqueued has been acknowledged.
C11_UnfinishedCount ==
    /\ unfinished = Len(queue)
                      + Cardinality({w \in Workers :
                                        wpc[w] \in {"process", "ack"}})
    /\ unfinished >= 0
    /\ (unfinished = 0) = (\A r \in ReqIds : reqs[r].st \in {"new", "acked"})

\* Two requests were enqueued and acknowledged; the dispatch of the last one
\* raised and its run() task is in the outer handler.
C11_Witness ==
    /\ nreq = 2
    /\ unfinished = 0
    /\ \E w \in Workers : wpc[w] = "fatal" /\ wexc[w] = "dispatch"

\* The run() tasks that have been launched and have not ended.
Live == {w \in Workers : wpc[w] \in {"session", "loop", "get", "process",
                                       "ack", "fatal"}}

\* C12: start(n) puts n run() loops to work on the pool it makes: as many
\* run() tasks have been submitted to the pool as it has threads.
C12_NWorkers == pool.id > 0 => pool.runs = pool.n

\* C13: a run() task whose session construction fails ends alone and the
\* pool keeps processing: while the client is active, another run() loop is
\* there to take the requests enqueued after the failure.
C13_PoolKeepsProcessing ==
    \A w \in Workers :
        (wpc[w] = "dead" /\ wexc[w] = "session" /\ active /\ starting = 0)
            => Live \ {w} # {}

\* C14: nothing leaves the dispatch of a request: a run() task reaches the
\* outer handler, and its report with no request, only from its own setup.
C14_NothingEscapes ==
    \A w \in Workers :
        wpc[w] \in {"fatal", "dead"} => wexc[w] = "session"

C16_JoinWaitsForThreads ==
    [][(joinPc = "waiting" /\ joinPc' = "returned" /\ ~active /\ starting = 0)
          => Live = {}]_vars

\* C17: once start() has returned, an active client has a live run() loop.
C17_ActiveHasWorker ==
    (active /\ starting = 0 /\ pool.id > 0) => Live # {}

\* C18: the flag check and the flag set of start() are one step: a call that
\* makes a pool and launches a run() task finds the flag as it was at its
\* check, cleared, so that no other call has made a pool in between.
C18_StartAtomic ==
    [][pool' # pool => (~active /\ starting = 1)]_vars

\* C19: a run() loop that stop() found live ends at its next test of the
\* flag, also when start() has been called again by then.  With start()
\* called from one thread, a run() task older than the latest pool was
\* launched before a stop(): at its test of the flag it does not go on to
\* the queue.
C19_OldLoopEnds ==
    [][\A w \in Workers :
          (w < pool.id /\ wpc[w] = "loop") => wpc'[w] # "get"]_vars

====
